---- MODULE Spec2Model ----
(***************************************************************************)
(* Model of the durable agent loop of worker/workflow.ts (AgentWorkflow)   *)
(* together with the progress state of worker/agent.ts (ResearchAgent).    *)
(*                                                                         *)
(* One Run is one Workflow instance.  run() is an async function: between  *)
(* two awaits its code runs atomically, so there is one action per awaited *)
(* operation (a progress publication or a step.do), each followed by the   *)
(* synchronous code up to the next await.  A crash loses the in-memory     *)
(* locals of run(); the engine then re-enters run() from its first line    *)
(* and step.do answers from the records it persisted.                      *)
(***************************************************************************)
EXTENDS Integers, Sequences, FiniteSets, TLC

VARIABLES
    pc,          \* the await run() is suspended at, "done" once it has ended
    turn,        \* loop variable of run()
    messages,    \* local `messages` of run()
    stepResult,  \* local `stepResult` of the current turn
    toolIdx,     \* position of the for..of loop over toolCalls (1-based)
    records,     \* engine: step name -> recorded result of a succeeded step
    attempt,     \* engine: failed attempts of the step that is pending
    instance,    \* engine: status, output and error of the Workflow instance
    agent,       \* ResearchAgent.state
    crashes,     \* number of crashes so far
    invoked,     \* the step whose callback the last action invoked, or NoKey
    reset,       \* POST /api/reset: the await the handler is suspended at
    terminateRequested,  \* the status the Run had when instance.terminate()
                 \* was last called on it, None while it never was
    inspected,   \* the last response of GET /api for the Run, if any
    other,       \* a second Run started by POST /api: its next await
    client,      \* the App of a browser: what it displays and its refs
    channel      \* AgentStates broadcast to the App and not yet delivered

\* The control surface: what the handlers of the HTTP API hold.
ctl == <<reset, terminateRequested, inspected, other>>

vars == <<pc, turn, messages, stepResult, toolIdx, records, attempt,
          instance, agent, crashes, invoked, reset, terminateRequested,
          inspected, other, client, channel>>

\* The browser side.
ui == <<client, channel>>

----------------------------------------------------------------------------
(* Bounds of the model.                                                    *)

\* MAX_AGENT_TURNS is imported from worker/constants; the model runs the
\* loop with a small value.
MAX_AGENT_TURNS == 2

\* Crashes of the Run the model explores.
MaxCrashes == 1

\* Broadcasts that can wait for delivery at a time.
MaxPending == 2

(* Retry limits passed to step.do.                                         *)
LLM_RETRY_LIMIT == 3
TOOL_RETRY_LIMIT == 2

----------------------------------------------------------------------------
(* Optional values: an absent key, undefined and null are None.            *)

None == <<>>
Some(x) == <<x>>
Val(o) == o[1]

IsPrefix(s, t) == Len(s) <= Len(t) /\ SubSeq(t, 1, Len(s)) = s

----------------------------------------------------------------------------
(* Tool inputs and their type guards.                                      *)

QueryArgs == "{\"query\":\"x\"}"
RepoArgs == "{\"owner\":\"o\",\"repo\":\"r\"}"
NumberQueryArgs == "{\"query\":5}"
EmptyArgs == "{}"
BrokenArgs == "{oops"

Str(s) == [type |-> "string", value |-> s]
Num(s) == [type |-> "number", value |-> s]

\* JSON.parse on the argument payloads of the model: the parsed value, or a
\* SyntaxError for text that is not JSON.
JsonParse(s) ==
    CASE s = QueryArgs -> [ok |-> TRUE, type |-> "object",
                           fields |-> [query |-> Str("x")]]
      [] s = RepoArgs -> [ok |-> TRUE, type |-> "object",
                          fields |-> [owner |-> Str("o"), repo |-> Str("r")]]
      [] s = NumberQueryArgs -> [ok |-> TRUE, type |-> "object",
                                 fields |-> [query |-> Num("5")]]
      [] s = EmptyArgs -> [ok |-> TRUE, type |-> "object", fields |-> <<>>]
      [] s = "null" -> [ok |-> TRUE, type |-> "null", fields |-> <<>>]
      [] OTHER -> [ok |-> FALSE, type |-> "SyntaxError", fields |-> <<>>]

HasString(value, key) ==
    /\ key \in DOMAIN value.fields
    /\ value.fields[key].type = "string"

isSearchReposInput(value) ==
    /\ value.type = "object"
    /\ HasString(value, "query")

isGetRepoInput(value) ==
    /\ value.type = "object"
    /\ HasString(value, "owner")
    /\ HasString(value, "repo")

----------------------------------------------------------------------------
(* The tools.  `http` is what the tool's fetch meets: "ok" (a 2xx response *)
(* with the expected body), "status" (a non-2xx response) or "throw" (the  *)
(* fetch rejects or the body cannot be read).                              *)

HttpOutcomes == {"ok", "status", "throw"}

Return(s) == [threw |-> FALSE, value |-> s]
Throw(e) == [threw |-> TRUE, value |-> e]

searchReposRun(input, http) ==
    CASE http = "throw" -> Throw("fetch failed")
      [] http = "status" -> Return("Search failed: " \o "403")
      [] OTHER -> Return("[{\"name\":\"a/b\",\"stars\":1}]")

getRepoRun(input, http) ==
    CASE http = "throw" -> Throw("fetch failed")
      [] http = "status" ->
            Return("Repo not found: " \o input.fields["owner"].value
                       \o "/" \o input.fields["repo"].value)
      [] OTHER -> Return("{\"name\":\"o/r\",\"stars\":1}")

\* The callback of the tool step.
DispatchTool(toolCall, http) ==
    LET args == JsonParse(toolCall.function.arguments)
        name == toolCall.function.name
    IN  IF ~args.ok THEN Throw("SyntaxError")
        ELSE CASE name = "search_repos" ->
                    IF ~isSearchReposInput(args)
                    THEN Return("Invalid arguments for search_repos")
                    ELSE searchReposRun(args, http)
               [] name = "get_repo" ->
                    IF ~isGetRepoInput(args)
                    THEN Return("Invalid arguments for get_repo")
                    ELSE getRepoRun(args, http)
               [] OTHER -> Return("Unknown tool: " \o name)

\* Whether the callback reaches a tool's run, the only place it fetches.
ReachesRun(toolCall) ==
    LET args == JsonParse(toolCall.function.arguments)
        name == toolCall.function.name
    IN  /\ args.ok
        /\ \/ name = "search_repos" /\ isSearchReposInput(args)
           \/ name = "get_repo" /\ isGetRepoInput(args)

----------------------------------------------------------------------------
(* What the gateway can answer.                                            *)

ToolCall(id, name, arguments) ==
    [id |-> id, type |-> "function",
     function |-> [name |-> name, arguments |-> arguments]]

\* Tool calls the modelled gateway emits: a valid search, a valid get_repo,
\* a known tool whose arguments fail its guard (reusing the id c1), an
\* unknown tool, and a payload that is not JSON.
SearchCall == ToolCall("c1", "search_repos", QueryArgs)
RepoCall == ToolCall("c2", "get_repo", RepoArgs)
BadShapeCall == ToolCall("c1", "get_repo", QueryArgs)
UnknownCall == ToolCall("c3", "frobnicate", EmptyArgs)
UnparsableCall == ToolCall("c2", "search_repos", BrokenArgs)
\* An unknown tool with a payload that is not JSON.
UnknownUnparsableCall == ToolCall("c3", "frobnicate", BrokenArgs)

ToolCallPool ==
    {SearchCall, RepoCall, BadShapeCall, UnknownCall, UnparsableCall,
     UnknownUnparsableCall}

\* The tool_calls lists of the modelled gateway: every single call, and
\* pairs that mix the kinds, one of them with the same id twice.
ToolCallLists ==
    { <<tc>> : tc \in ToolCallPool }
    \cup { <<SearchCall, RepoCall>>, <<UnknownCall, SearchCall>>,
           <<SearchCall, BadShapeCall>>, <<BadShapeCall, UnparsableCall>> }

Choice(finish_reason, content, tool_calls) ==
    [message |-> Some([role |-> "assistant", content |-> content,
                       tool_calls |-> tool_calls]),
     finish_reason |-> finish_reason]

Body(choices) ==
    [isObject |-> TRUE, id |-> Some("chatcmpl-1"), model |-> Some("m"),
     choices |-> choices]

\* Bodies that fail isChatCompletionResponse.
NullBody == [isObject |-> FALSE, id |-> None, model |-> None, choices |-> None]
NoIdBody == [Body(Some(<<>>)) EXCEPT !.id = None]
NoChoicesBody == Body(None)
\* Bodies that pass it and hold no usable first choice.
EmptyChoicesBody == Body(Some(<<>>))
NullChoiceBody == Body(Some(<<None>>))
\* A first choice that is an object without `message`.
NoMessageBody ==
    Body(Some(<<Some([message |-> None, finish_reason |-> "stop"])>>))

\* Bodies whose first choice ends the Run.
StopBodies ==
    { Body(Some(<<Some(Choice("stop", c, None))>>)) :
        c \in {Some("pong"), Some(""), None} }
    \cup { Body(Some(<<Some(Choice("stop", Some("pong"),
                                    Some(<<SearchCall>>)))>>)) }
    \cup { Body(Some(<<Some(Choice("tool_calls", Some("pong"), Some(<<>>)))>>)),
           Body(Some(<<Some(Choice("length", Some("pong"), None))>>)) }

\* Bodies whose first choice asks for tools.
ToolBodies ==
    { Body(Some(<<Some(Choice(fr, None, Some(tcs)))>>)) :
        fr \in {"tool_calls"}, tcs \in ToolCallLists }

\* What the gateway answers while the App is followed: a final answer or
\* one search.
ClientBodies ==
    { Body(Some(<<Some(Choice("stop", Some("pong"), None))>>)),
      Body(Some(<<Some(Choice("tool_calls", None, Some(<<SearchCall>>)))>>)) }

GatewayBodies ==
    {NullBody, NoIdBody, NoChoicesBody, EmptyChoicesBody, NullChoiceBody,
     NoMessageBody} \cup StopBodies \cup ToolBodies

NoResult == NullBody

isChatCompletionResponse(v) ==
    /\ v.isObject
    /\ v.id # None
    /\ v.model # None
    /\ v.choices # None

----------------------------------------------------------------------------
(* Messages, progress updates and the agent state.                         *)

Task == "ping"

UserMessage ==
    [role |-> "user", content |-> Some(Task), tool_calls |-> None,
     tool_call_id |-> None]

AssistantMessage(choice) ==
    [role |-> "assistant", content |-> Val(choice.message).content,
     tool_calls |-> Val(choice.message).tool_calls, tool_call_id |-> None]

\* A tool message that carries the tool's name where the call's id belongs.
ToolMessageNameAsId(toolResult, toolCall) ==
    [role |-> "tool", content |-> Some(toolResult), tool_calls |-> None,
     tool_call_id |-> Some(toolCall.function.name)]

ToolMessage(toolResult, toolCall) ==
    [role |-> "tool", content |-> Some(toolResult), tool_calls |-> None,
     tool_call_id |-> Some(toolCall.id)]

\* A push that writes over the last message.
PushOverwrite(msgs, m) == [msgs EXCEPT ![Len(msgs)] = m]

\* A push at the front.
PushFront(msgs, m) == <<m>> \o msgs

\* A push that appends the message twice.
PushTwice(msgs, m) == Append(Append(msgs, m), m)

Push(msgs, m) == Append(msgs, m)

initialState == [status |-> "idle", message |-> "", result |-> None]

initialUpdate ==
    [status |-> "searching", message |-> "Starting analysis...",
     result |-> Some("")]

turnUpdate(t) ==
    [status |-> "analyzing",
     message |-> "Processing turn " \o ToString(t + 1) \o "..."]

completeUpdate(choice) ==
    [status |-> "complete", message |-> "Analysis complete!",
     result |-> Val(choice.message).content]

toolUpdate(toolCall) ==
    [status |-> "fetching",
     message |-> "Using tool: " \o toolCall.function.name \o "..."]

\* A publish that never touches the result.
updateProgressKeepResult(state, progress) ==
    [status |-> progress.status,
     message |-> progress.message,
     result |-> state.result]

\* ResearchAgent.updateProgress: { ...this.state, ...progress }.
updateProgress(state, progress) ==
    [status |-> progress.status,
     message |-> progress.message,
     result |-> IF "result" \in DOMAIN progress THEN progress.result
                ELSE state.result]

----------------------------------------------------------------------------
(* The Workflows engine: step.do(name, config, callback).                  *)

NoKey == ""

LlmKey(t) == "llm-turn-" \o ToString(t)
ToolKey(t, toolCall) == "tool-" \o ToString(t) \o "-" \o toolCall.id

\* A step.do that forgets what it recorded.
IsRecordedNever(key) == FALSE

\* step.do answers from the record of a step that has succeeded.
IsRecorded(key) == key \in DOMAIN records

Record(key, result) == (key :> result) @@ records

\* Attempts the engine makes of a step before it gives up.
MaxAttempts(limit) == limit

Running == [status |-> "running", output |-> None, error |-> None]
Completed(output) ==
    [status |-> "complete", output |-> Some(output), error |-> None]
Errored(error) == [status |-> "errored", output |-> None, error |-> Some(error)]
Terminated == [status |-> "terminated", output |-> None, error |-> None]

\* The status of the Run: the status of the value run() returned, "error"
\* when run() threw.
RunStatus ==
    CASE instance.status = "errored" -> "error"
      [] instance.status = "complete" -> Val(instance.output).status
      [] OTHER -> "running"

Terminal == RunStatus \in {"complete", "error", "max_turns_reached"}

----------------------------------------------------------------------------
(* run().                                                                  *)

\* A loop that runs one turn too many.
LoopCondInclusive(t) == t <= MAX_AGENT_TURNS

LoopCond(t) == t < MAX_AGENT_TURNS

\* stepResult once it passed isChatCompletionResponse.
choices == Val(stepResult.choices)
choice == Val(choices[1])
toolCalls == Val(Val(choice.message).tool_calls)

\* `continue` of lines 110-119.
SkipsTurn(v) ==
    IF ~isChatCompletionResponse(v) THEN TRUE
    ELSE IF Len(Val(v.choices)) = 0 THEN TRUE
    ELSE Val(v.choices)[1] = None

\* The condition of line 129.
StopCondition(c) ==
    IF c.finish_reason = "stop" THEN TRUE
    ELSE IF Val(c.message).tool_calls = None THEN TRUE
    ELSE Len(Val(Val(c.message).tool_calls)) = 0

\* The instance id POST /api returned for the Run, and one no Run has.
RunId == "run-1"
UnknownId == "run-0"
\* The instance id POST /api returns for the second Run.
OtherId == "run-2"
InstanceIds == {None, Some(RunId), Some(UnknownId)}

\* No reset request is being handled.
ResetIdle == [pc |-> "idle", instanceId |-> None, response |-> None]

\* The state reset() sets: it replaces the whole state, so no result is left.
ResetState == [status |-> "idle", message |-> "", result |-> None]

\* instance.terminate() either takes effect or throws (it is not implemented
\* in local dev).
TerminateOutcomes == {"terminated", "throws"}

\* A reset handler that lets a failed termination escape.
AfterTerminateRethrows(threw) == IF threw THEN "failed" ELSE "agent"

\* The catch of lines 151-153: the handler goes on to agent.reset() whether
\* or not get() or terminate() threw.
AfterTerminate(threw) == "agent"

\* An engine that terminates an instance whatever its status.
CanTerminateAlways(i) == TRUE

\* The engine terminates only an instance that has not ended.
CanTerminate(i) == i.status = "running"

\* The body of the response of GET /api.
StatusResponse(i) == [status |-> i.status, output |-> i.output]

\* One entry of the App's step log.
StepLog(tool, status) == [tool |-> tool, status |-> status]

\* The App after the handleSubmit that started the Run: the instance id of
\* the response is stored, the socket to the agent is still connecting.
ClientStarted ==
    [connected |-> FALSE, submitting |-> FALSE, status |-> "running",
     result |-> "", steps |-> <<StepLog("thinking", "running")>>,
     instanceId |-> Some(RunId), shows |-> "local", resubmitted |-> FALSE]

\* isRunning of the App: the Reset button is shown, the Start button is not.
IsRunning(status) == status \notin {"idle", "complete", "error"}

\* setSteps of lines 61-66 and 77-81: the running entries become complete.
CompleteSteps(steps) ==
    [k \in 1..Len(steps) |->
        IF steps[k].status = "running"
        THEN StepLog(steps[k].tool, "complete") ELSE steps[k]]

\* The tool a "Using tool: <name>..." message names, None for another one.
ToolOfMessage(message) ==
    IF \E tc \in ToolCallPool : message = toolUpdate(tc).message
    THEN Some((CHOOSE tc \in ToolCallPool :
                  message = toolUpdate(tc).message).function.name)
    ELSE None

\* Lines 45-86 of onStateUpdate for the notification n: status, step log
\* and result are set from the state; a result key that is absent leaves
\* the result.
Display(c, n) ==
    [c EXCEPT !.status = n.state.status,
              !.steps = IF ToolOfMessage(n.state.message) # None
                        THEN Append(CompleteSteps(c.steps),
                                    StepLog(Val(ToolOfMessage(n.state.message)),
                                            "running"))
                        ELSE IF n.state.status = "complete"
                        THEN CompleteSteps(c.steps)
                        ELSE c.steps,
              !.result = IF n.state.result # None THEN Val(n.state.result)
                         ELSE c.result,
              !.shows = n.writer]

\* onStateUpdate: nothing while a submission is under way.
onStateUpdate(c, n) == IF c.submitting THEN c ELSE Display(c, n)

\* setState of the agent sends the new state to the connected App; the
\* model lets at most MaxPending of them wait.
Broadcast(writer) ==
    IF client.connected
    THEN /\ Len(channel) < MaxPending
         /\ channel' = Append(channel, [state |-> agent', writer |-> writer])
    ELSE channel' = channel

Init ==
    /\ pc = "init"
    /\ turn = 0
    /\ messages = <<UserMessage>>
    /\ stepResult = NoResult
    /\ toolIdx = 0
    /\ records = <<>>
    /\ attempt = 0
    /\ instance = Running
    /\ agent = initialState
    /\ crashes = 0
    /\ invoked = NoKey
    /\ reset = ResetIdle
    /\ terminateRequested = None
    /\ inspected = None
    /\ other = "none"
    /\ client = ClientStarted
    /\ channel = <<>>

\* run() throws: the instance ends errored.
Fail(error) ==
    /\ instance' = Errored(error)
    /\ pc' = "done"

\* await agent.updateProgress(initialUpdate)
PublishInitial ==
    /\ pc = "init"
    /\ agent' = updateProgress(agent, initialUpdate)
    /\ pc' = "turn"
    /\ invoked' = NoKey
    /\ UNCHANGED <<turn, messages, stepResult, toolIdx, records, attempt,
                   instance, crashes>>
    /\ UNCHANGED ctl
    /\ Broadcast("run")
    /\ UNCHANGED client

\* The loop condition holds: await agent.updateProgress(turnUpdate)
PublishTurn ==
    /\ pc = "turn"
    /\ LoopCond(turn)
    /\ agent' = updateProgress(agent, turnUpdate(turn))
    /\ pc' = "llm"
    /\ invoked' = NoKey
    /\ UNCHANGED <<turn, messages, stepResult, toolIdx, records, attempt,
                   instance, crashes>>
    /\ UNCHANGED ctl
    /\ Broadcast("run")
    /\ UNCHANGED client

\* The loop condition fails: return max_turns_reached.
ReturnMaxTurns ==
    /\ pc = "turn"
    /\ ~LoopCond(turn)
    /\ instance' = Completed([status |-> "max_turns_reached",
                              turns |-> MAX_AGENT_TURNS])
    /\ pc' = "done"
    /\ invoked' = NoKey
    /\ UNCHANGED <<turn, messages, stepResult, toolIdx, records, attempt,
                   agent, crashes>>
    /\ UNCHANGED ctl
    /\ UNCHANGED ui

\* A replay that loses the recorded response of the LLM step.
LlmCachedForgets ==
    /\ pc = "llm"
    /\ IsRecorded(LlmKey(turn))
    /\ stepResult' = NoResult
    /\ pc' = "check"
    /\ invoked' = NoKey
    /\ UNCHANGED <<turn, messages, toolIdx, records, attempt, instance,
                   agent, crashes>>
    /\ UNCHANGED ctl
    /\ UNCHANGED ui

\* step.do(`llm-turn-${turn}`) finds the step recorded.
LlmCached ==
    /\ pc = "llm"
    /\ IsRecorded(LlmKey(turn))
    /\ stepResult' = records[LlmKey(turn)]
    /\ pc' = "check"
    /\ invoked' = NoKey
    /\ UNCHANGED <<turn, messages, toolIdx, records, attempt, instance,
                   agent, crashes>>
    /\ UNCHANGED ctl
    /\ UNCHANGED ui

\* One attempt of the LLM step that succeeds: callAIGateway returns `body`.
LlmSucceeds(body) ==
    /\ pc = "llm"
    /\ ~IsRecorded(LlmKey(turn))
    /\ invoked' = LlmKey(turn)
    /\ records' = Record(LlmKey(turn), body)
    /\ stepResult' = body
    /\ attempt' = 0
    /\ pc' = "check"
    /\ UNCHANGED <<turn, messages, toolIdx, instance, agent, crashes>>
    /\ UNCHANGED ctl
    /\ UNCHANGED ui

\* An LLM step that is given one attempt more than its limit.
LlmFailsOneMore ==
    /\ pc = "llm"
    /\ ~IsRecorded(LlmKey(turn))
    /\ invoked' = LlmKey(turn)
    /\ attempt' = attempt + 1
    /\ IF attempt + 1 >= MaxAttempts(LLM_RETRY_LIMIT) + 1
       THEN Fail("StepExhausted")
       ELSE UNCHANGED <<pc, instance>>
    /\ UNCHANGED <<turn, messages, stepResult, toolIdx, records, agent,
                   crashes>>
    /\ UNCHANGED ctl
    /\ UNCHANGED ui

\* One attempt of the LLM step that throws (a non-2xx response, a failed
\* fetch, a body that is not JSON): retried, or the step is exhausted.
LlmFails ==
    /\ pc = "llm"
    /\ ~IsRecorded(LlmKey(turn))
    /\ invoked' = LlmKey(turn)
    /\ attempt' = attempt + 1
    /\ IF attempt + 1 >= MaxAttempts(LLM_RETRY_LIMIT)
       THEN Fail("StepExhausted")
       ELSE UNCHANGED <<pc, instance>>
    /\ UNCHANGED <<turn, messages, stepResult, toolIdx, records, agent,
                   crashes>>
    /\ UNCHANGED ctl
    /\ UNCHANGED ui

\* Lines 110-119: the turn is skipped.
SkipTurn ==
    /\ pc = "check"
    /\ SkipsTurn(stepResult)
    /\ turn' = turn + 1
    /\ pc' = "turn"
    /\ invoked' = NoKey
    /\ UNCHANGED <<messages, stepResult, toolIdx, records, attempt, instance,
                   agent, crashes>>
    /\ UNCHANGED ctl
    /\ UNCHANGED ui

\* Line 123 reads choice.message.content of a choice without message.
ThrowNoMessage ==
    /\ pc = "check"
    /\ ~SkipsTurn(stepResult)
    /\ choice.message = None
    /\ Fail("TypeError")
    /\ invoked' = NoKey
    /\ UNCHANGED <<turn, messages, stepResult, toolIdx, records, attempt,
                   agent, crashes>>
    /\ UNCHANGED ctl
    /\ UNCHANGED ui

\* Lines 121-129: the assistant message is pushed and the model is done.
AssistantStop ==
    /\ pc = "check"
    /\ ~SkipsTurn(stepResult)
    /\ choice.message # None
    /\ StopCondition(choice)
    /\ messages' = Push(messages, AssistantMessage(choice))
    /\ pc' = "complete"
    /\ invoked' = NoKey
    /\ UNCHANGED <<turn, stepResult, toolIdx, records, attempt, instance,
                   agent, crashes>>
    /\ UNCHANGED ctl
    /\ UNCHANGED ui

\* Lines 121-149: the assistant message is pushed and the tool loop starts.
AssistantTools ==
    /\ pc = "check"
    /\ ~SkipsTurn(stepResult)
    /\ choice.message # None
    /\ ~StopCondition(choice)
    /\ messages' = Push(messages, AssistantMessage(choice))
    /\ toolIdx' = 1
    /\ pc' = "tool"
    /\ invoked' = NoKey
    /\ UNCHANGED <<turn, stepResult, records, attempt, instance, agent,
                   crashes>>
    /\ UNCHANGED ctl
    /\ UNCHANGED ui

\* await agent.updateProgress(completeUpdate)
PublishComplete ==
    /\ pc = "complete"
    /\ agent' = updateProgress(agent, completeUpdate(choice))
    /\ pc' = "return"
    /\ invoked' = NoKey
    /\ UNCHANGED <<turn, messages, stepResult, toolIdx, records, attempt,
                   instance, crashes>>
    /\ UNCHANGED ctl
    /\ Broadcast("run")
    /\ UNCHANGED client

\* Lines 138-142: run() returns and the engine records the output.
ReturnComplete ==
    /\ pc = "return"
    /\ instance' = Completed([status |-> "complete", turns |-> turn + 1,
                              result |-> Val(choice.message).content])
    /\ pc' = "done"
    /\ invoked' = NoKey
    /\ UNCHANGED <<turn, messages, stepResult, toolIdx, records, attempt,
                   agent, crashes>>
    /\ UNCHANGED ctl
    /\ UNCHANGED ui

\* await agent.updateProgress(toolUpdate)
PublishTool ==
    /\ pc = "tool"
    /\ agent' = updateProgress(agent, toolUpdate(toolCalls[toolIdx]))
    /\ pc' = "toolstep"
    /\ invoked' = NoKey
    /\ UNCHANGED <<turn, messages, stepResult, toolIdx, records, attempt,
                   instance, crashes>>
    /\ UNCHANGED ctl
    /\ Broadcast("run")
    /\ UNCHANGED client

\* A tool loop that ends the turn after its first tool call.
AfterToolSkipsRest(toolResult) ==
    /\ messages' = Push(messages, ToolMessage(toolResult, toolCalls[toolIdx]))
    /\ toolIdx' = 0
    /\ pc' = "turn"
    /\ turn' = turn + 1

\* Lines 179-186: the tool message is pushed and the for..of loop moves on;
\* after the last tool call the turn ends.
AfterTool(toolResult) ==
    /\ messages' = Push(messages, ToolMessage(toolResult, toolCalls[toolIdx]))
    /\ IF toolIdx < Len(toolCalls)
       THEN /\ toolIdx' = toolIdx + 1
            /\ pc' = "tool"
            /\ turn' = turn
       ELSE /\ toolIdx' = 0
            /\ pc' = "turn"
            /\ turn' = turn + 1

\* step.do(`tool-${turn}-${toolCall.id}`) finds the step recorded.
ToolCached ==
    /\ pc = "toolstep"
    /\ IsRecorded(ToolKey(turn, toolCalls[toolIdx]))
    /\ AfterTool(records[ToolKey(turn, toolCalls[toolIdx])])
    /\ invoked' = NoKey
    /\ UNCHANGED <<stepResult, records, attempt, instance, agent, crashes>>
    /\ UNCHANGED ctl
    /\ UNCHANGED ui

\* One attempt of the tool step.
ToolAttempt(http) ==
    LET toolCall == toolCalls[toolIdx]
        key == ToolKey(turn, toolCall)
        out == DispatchTool(toolCall, http)
    IN  /\ pc = "toolstep"
        /\ ~IsRecorded(key)
        /\ ReachesRun(toolCall) \/ http = "ok"
        /\ invoked' = key
        /\ IF ~out.threw
           THEN /\ records' = Record(key, out.value)
                /\ attempt' = 0
                /\ AfterTool(out.value)
                /\ UNCHANGED instance
           ELSE /\ attempt' = attempt + 1
                /\ IF attempt + 1 >= MaxAttempts(TOOL_RETRY_LIMIT)
                   THEN Fail("StepExhausted")
                   ELSE UNCHANGED <<pc, instance>>
                /\ UNCHANGED <<turn, messages, toolIdx, records>>
        /\ UNCHANGED <<stepResult, agent, crashes>>
        /\ UNCHANGED ctl
        /\ UNCHANGED ui

\* An awaited agent.updateProgress rejects: run() throws outside any step.
PublishFails ==
    /\ \/ pc \in {"init", "complete", "tool"}
       \/ pc = "turn" /\ LoopCond(turn)
    /\ Fail("RpcError")
    /\ invoked' = NoKey
    /\ UNCHANGED <<turn, messages, stepResult, toolIdx, records, attempt,
                   agent, crashes>>
    /\ UNCHANGED ctl
    /\ UNCHANGED ui

\* The process running the instance dies; the engine re-enters run(), which
\* starts again from its first line with fresh locals.
CrashResume ==
    /\ instance.status = "running"
    /\ crashes < MaxCrashes
    /\ crashes' = crashes + 1
    /\ pc' = "init"
    /\ turn' = 0
    /\ messages' = <<UserMessage>>
    /\ stepResult' = NoResult
    /\ toolIdx' = 0
    /\ invoked' = NoKey
    /\ UNCHANGED <<records, attempt, instance, agent>>
    /\ UNCHANGED ctl
    /\ UNCHANGED ui

\* POST /api/reset arrives, with or without an instanceId.
ResetRequest(instanceId) ==
    /\ reset.pc = "idle"
    /\ reset' = [pc |-> IF instanceId # None THEN "terminate" ELSE "agent",
                 instanceId |-> instanceId, response |-> None]
    /\ UNCHANGED <<pc, turn, messages, stepResult, toolIdx, records, attempt,
                   instance, agent, crashes, invoked, terminateRequested,
                   inspected, other>>
    /\ UNCHANGED ui

\* Lines 148-150: get() throws for an id no instance has; terminate() is
\* called on the Run and stops it, or throws. Nothing escapes the try.
ResetTerminate(outcome) ==
    /\ reset.pc = "terminate"
    /\ LET found == reset.instanceId = Some(RunId)
           stops == found /\ outcome = "terminated" /\ CanTerminate(instance)
       IN  /\ outcome = "terminated" => found /\ CanTerminate(instance)
           /\ terminateRequested' = IF found THEN Some(instance.status)
                                    ELSE terminateRequested
           /\ IF stops
              THEN instance' = Terminated /\ pc' = "done"
              ELSE UNCHANGED <<instance, pc>>
           /\ reset' = [reset EXCEPT !.pc = AfterTerminate(~stops)]
    /\ invoked' = NoKey
    /\ UNCHANGED <<turn, messages, stepResult, toolIdx, records, attempt,
                   agent, crashes, inspected, other>>
    /\ UNCHANGED ui

\* Lines 157-161: await agent.reset(), then the response "OK".
ResetAgent ==
    /\ reset.pc = "agent"
    /\ agent' = ResetState
    /\ reset' = [reset EXCEPT !.pc = "done", !.response = Some("OK")]
    /\ UNCHANGED <<pc, turn, messages, stepResult, toolIdx, records, attempt,
                   instance, crashes, invoked, terminateRequested, inspected,
                   other>>
    /\ Broadcast("reset")
    /\ UNCHANGED client

\* GET /api?instanceId=RunId
GetStatus ==
    /\ inspected' = Some(StatusResponse(instance))
    /\ inspected' # inspected
    /\ UNCHANGED <<pc, turn, messages, stepResult, toolIdx, records, attempt,
                   instance, agent, crashes, invoked, reset,
                   terminateRequested, other>>
    /\ UNCHANGED ui

\* POST /api once more: a second instance is created for the same
\* DEFAULT_AGENT_ID, whatever the first Run is doing.
StartOther ==
    /\ other = "none"
    /\ other' = "init"
    /\ UNCHANGED <<pc, turn, messages, stepResult, toolIdx, records, attempt,
                   instance, agent, crashes, invoked, reset,
                   terminateRequested, inspected>>
    /\ UNCHANGED ui

\* The second Run's await agent.updateProgress(initialUpdate).
OtherPublishInitial ==
    /\ other = "init"
    /\ agent' = updateProgress(agent, initialUpdate)
    /\ other' = "turn"
    /\ UNCHANGED <<pc, turn, messages, stepResult, toolIdx, records, attempt,
                   instance, crashes, invoked, reset, terminateRequested,
                   inspected>>
    /\ Broadcast("other")
    /\ UNCHANGED client

\* The second Run's await agent.updateProgress(turnUpdate) of its turn 0;
\* the second Run is not followed further.
OtherPublishTurn ==
    /\ other = "turn"
    /\ LoopCond(0)
    /\ agent' = updateProgress(agent, turnUpdate(0))
    /\ other' = "llm"
    /\ UNCHANGED <<pc, turn, messages, stepResult, toolIdx, records, attempt,
                   instance, crashes, invoked, reset, terminateRequested,
                   inspected>>
    /\ Broadcast("other")
    /\ UNCHANGED client

\* onOpen: the socket of useAgent opens and the agent sends its state.
Connect ==
    /\ ~client.connected
    /\ client' = [client EXCEPT !.connected = TRUE]
    /\ channel' = <<[state |-> agent, writer |-> "snapshot"]>>
    /\ UNCHANGED <<pc, turn, messages, stepResult, toolIdx, records, attempt,
                   instance, agent, crashes, invoked>>
    /\ UNCHANGED ctl

\* The next broadcast reaches the App.
Deliver ==
    /\ channel # <<>>
    /\ client' = onStateUpdate(client, Head(channel))
    /\ channel' = Tail(channel)
    /\ UNCHANGED <<pc, turn, messages, stepResult, toolIdx, records, attempt,
                   instance, agent, crashes, invoked>>
    /\ UNCHANGED ctl

\* handleReset up to its fetch: the Reset button is shown while isRunning.
ClickReset ==
    /\ IsRunning(client.status)
    /\ ResetRequest(client.instanceId)

\* handleReset after its fetch: the App goes back to its first screen.
ResetResponse ==
    /\ reset.pc = "done"
    /\ reset' = [reset EXCEPT !.pc = "closed"]
    /\ client' = [client EXCEPT !.status = "idle", !.result = "",
                                !.steps = <<>>, !.instanceId = None,
                                !.shows = "local"]
    /\ UNCHANGED <<pc, turn, messages, stepResult, toolIdx, records, attempt,
                   instance, agent, crashes, invoked>>
    /\ UNCHANGED <<terminateRequested, inspected, other, channel>>

\* handleSubmit up to its fetch: the Start button is shown while not
\* isRunning; the model follows one submission after the first.
Submit ==
    /\ ~IsRunning(client.status)
    /\ ~client.resubmitted
    /\ client' = [client EXCEPT !.status = "running", !.result = "",
                                !.steps = <<StepLog("thinking", "running")>>,
                                !.submitting = TRUE, !.resubmitted = TRUE,
                                !.shows = "local"]
    /\ UNCHANGED <<pc, turn, messages, stepResult, toolIdx, records, attempt,
                   instance, agent, crashes, invoked>>
    /\ UNCHANGED <<reset, terminateRequested, inspected, other, channel>>

\* The worker handles the POST /api of the submission.
StartByClient ==
    /\ client.submitting
    /\ StartOther

\* handleSubmit after its fetch: the response holds the new instance id.
SubmitResponse ==
    /\ client.submitting
    /\ other # "none"
    /\ client' = [client EXCEPT !.submitting = FALSE,
                                !.instanceId = Some(OtherId)]
    /\ UNCHANGED <<pc, turn, messages, stepResult, toolIdx, records, attempt,
                   instance, agent, crashes, invoked>>
    /\ UNCHANGED <<reset, terminateRequested, inspected, other, channel>>

\* The catch of handleSubmit: the fetch or the parsing of its body failed.
SubmitFails ==
    /\ client.submitting
    /\ client' = [client EXCEPT
                    !.submitting = FALSE, !.status = "error",
                    !.steps = Append([k \in 1..Len(client.steps) |->
                                        StepLog(client.steps[k].tool, "error")],
                                     StepLog("error", "error")),
                    !.shows = "local"]
    /\ UNCHANGED <<pc, turn, messages, stepResult, toolIdx, records, attempt,
                   instance, agent, crashes, invoked>>
    /\ UNCHANGED <<reset, terminateRequested, inspected, other, channel>>

\* The steps of an execution of run() that was never resumed.
LiveStep ==
    \/ PublishInitial
    \/ PublishTurn
    \/ ReturnMaxTurns
    \/ \E body \in GatewayBodies : LlmSucceeds(body)
    \/ LlmFails
    \/ SkipTurn
    \/ ThrowNoMessage
    \/ AssistantStop
    \/ AssistantTools
    \/ PublishComplete
    \/ ReturnComplete
    \/ PublishTool
    \/ ToolCached
    \/ \E http \in HttpOutcomes : ToolAttempt(http)

\* The steps of run(), the replay of a recorded LLM step included.
RunStep ==
    \/ LiveStep
    \/ LlmCached

\* One Run, left alone by the control surface.
Next ==
    \/ RunStep
    \/ PublishFails
    \/ CrashResume

Spec == Init /\ [][Next]_vars

\* The engine keeps scheduling a Run that can take a step.
FairSpec == Spec /\ WF_vars(RunStep)

\* One Run that is never resumed, with one reset request and with status
\* inspections.
ResetNext ==
    \/ LiveStep
    \/ PublishFails
    \/ \E instanceId \in InstanceIds : ResetRequest(instanceId)
    \/ \E outcome \in TerminateOutcomes : ResetTerminate(outcome)
    \/ ResetAgent
    \/ GetStatus

ResetSpec == Init /\ [][ResetNext]_vars

\* One Run that is never resumed, with a second Run started beside or after
\* it.
StartNext ==
    \/ LiveStep
    \/ PublishFails
    \/ StartOther
    \/ OtherPublishInitial
    \/ OtherPublishTurn

StartSpec == Init /\ [][StartNext]_vars

\* The steps of a Run whose gateway and tools answer well.
SmoothStep ==
    \/ PublishInitial
    \/ PublishTurn
    \/ ReturnMaxTurns
    \/ \E body \in ClientBodies : LlmSucceeds(body)
    \/ AssistantStop
    \/ AssistantTools
    \/ PublishComplete
    \/ ReturnComplete
    \/ PublishTool
    \/ ToolAttempt("ok")

\* One Run that is never resumed and meets no failure, with the App that
\* started it: the App connects, gets the broadcasts, resets and submits
\* once more.
ClientNext ==
    \/ SmoothStep
    \/ Connect
    \/ Deliver
    \/ ClickReset
    \/ \E outcome \in TerminateOutcomes : ResetTerminate(outcome)
    \/ ResetAgent
    \/ ResetResponse
    \/ Submit
    \/ StartByClient
    \/ SubmitResponse
    \/ SubmitFails
    \/ OtherPublishInitial
    \/ OtherPublishTurn

ClientSpec == Init /\ [][ClientNext]_vars

----------------------------------------------------------------------------
(* Properties.                                                             *)

Turns == 0..MAX_AGENT_TURNS
IsLlmKey(key) == \E t \in Turns : key = LlmKey(t)

\* The step the Run is suspended in, when it is suspended in one.
PendingKey ==
    CASE pc = "llm" -> LlmKey(turn)
      [] pc = "toolstep" -> ToolKey(turn, toolCalls[toolIdx])
      [] OTHER -> NoKey

\* C1: once a step has succeeded and been recorded under a key, its record
\* never changes, its callback is not invoked again, and every later
\* step.do with that key (also after a crash and resume) hands run() the
\* recorded result.
C1_AtMostOnceExecution ==
    [][ /\ \A key \in DOMAIN records :
              /\ key \in DOMAIN records'
              /\ records'[key] = records[key]
              /\ invoked' # key
        /\ (pc = "llm" /\ IsRecorded(LlmKey(turn)) /\ pc' = "check")
              => stepResult' = records[LlmKey(turn)]
        /\ (pc = "toolstep" /\ PendingKey \in DOMAIN records
                /\ pc' \in {"tool", "turn"})
              => messages'[Len(messages')].content = Some(records[PendingKey])
      ]_vars

\* A resumed Run has been handed the recorded results of a whole tool turn.
C1_Witness ==
    /\ crashes > 0
    /\ pc = "turn"
    /\ turn = 1
    /\ Len(messages) >= 3
    /\ invoked = NoKey

\* C2: every Run reaches a terminal status, the loop variable never passes
\* MAX_AGENT_TURNS, and a Run that ends complete reports between 1 and
\* MAX_AGENT_TURNS turns.
C2_BoundedTermination ==
    /\ <>Terminal
    /\ [](/\ turn <= MAX_AGENT_TURNS
          /\ RunStatus = "complete" =>
                /\ 1 <= Val(instance.output).turns
                /\ Val(instance.output).turns <= MAX_AGENT_TURNS)

\* A Run completes in its last turn.
C2_Witness ==
    /\ RunStatus = "complete"
    /\ Val(instance.output).turns = MAX_AGENT_TURNS

\* C3: when a step has exhausted its retries the Run has status error and
\* the agent state has status error.
C3_ExhaustionSurfaced ==
    instance.error = Some("StepExhausted") =>
        /\ RunStatus = "error"
        /\ agent.status = "error"

\* C4: an attempt of a tool step whose callback does not fail inside a
\* tool's run returns a string: the tool message is appended and the Run
\* goes on.
C4_DispatchNeverThrows ==
    [][ (pc = "toolstep" /\ invoked' # NoKey
            /\ (~ReachesRun(toolCalls[toolIdx]) \/ attempt' = 0))
          => /\ attempt' = 0
             /\ Len(messages') = Len(messages) + 1
             /\ messages'[Len(messages')].role = "tool"
             /\ instance'.status = "running"
      ]_vars

\* C5: a Run has status error only when a step has exhausted its retries.
C5_OnlyExhaustionAborts ==
    RunStatus = "error" => instance.error = Some("StepExhausted")

\* C6 as stated: every step, a resume included, leaves the previous messages
\* a prefix of the new ones, and the first message is the user message.
C6_AppendOnlyAcrossResumes ==
    [][ /\ IsPrefix(messages, messages')
        /\ messages'[1] = UserMessage ]_vars

\* C6 as amended: every step of one execution of run() leaves the previous
\* messages a prefix of the new ones; a resume starts messages again at the
\* user message; the first message is always the user message.
C6_AppendOnly ==
    [][ /\ crashes' = crashes => IsPrefix(messages, messages')
        /\ crashes' # crashes => messages' = <<UserMessage>>
        /\ messages'[1] = UserMessage ]_vars

\* A resumed Run has rebuilt an assistant message and a tool message.
C6_Witness ==
    /\ crashes > 0
    /\ Len(messages) >= 3
    /\ messages[1] = UserMessage

\* The response of the current turn has a first choice that meets the stop
\* condition.
StepIsStop ==
    IF SkipsTurn(stepResult) THEN FALSE
    ELSE IF choice.message = None THEN FALSE
    ELSE StopCondition(choice)

\* C7: a Run whose turn met the stop condition has ended complete with
\* turns = turn + 1 and the assistant content as result, the agent state
\* holds the complete update with that result, the assistant message is the
\* last message and no tool step of that turn has run.
C7_StopCompletes ==
    (pc = "done" /\ StepIsStop) =>
        /\ RunStatus = "complete"
        /\ Val(instance.output).turns = turn + 1
        /\ Val(instance.output).result = Val(choice.message).content
        /\ agent.status = "complete"
        /\ agent.result = Val(choice.message).content
        /\ messages[Len(messages)] = AssistantMessage(choice)
        /\ \A tc \in ToolCallPool : ~IsRecorded(ToolKey(turn, tc))

\* Every response the gateway has given is one that skips its turn.
OnlySkippingBodies ==
    /\ DOMAIN records # {}
    /\ \A key \in DOMAIN records :
          IF IsLlmKey(key) THEN SkipsTurn(records[key]) ELSE FALSE

\* C8: a skipped turn leaves messages unchanged and runs no tool step, and a
\* Run whose gateway answered every turn with a skipping body ends
\* max_turns_reached.
C8_SkipsEndMaxTurns ==
    /\ (pc \in {"check", "turn"} /\ OnlySkippingBodies)
          => messages = <<UserMessage>>
    /\ (Terminal /\ OnlySkippingBodies
           /\ instance.error # Some("StepExhausted"))
          => RunStatus = "max_turns_reached"

\* No recorded response has a first choice that meets the stop condition.
NoStopRecorded ==
    \A key \in DOMAIN records :
        IF ~IsLlmKey(key) THEN TRUE
        ELSE IF SkipsTurn(records[key]) THEN TRUE
        ELSE IF Val(Val(records[key].choices)[1]).message = None THEN TRUE
        ELSE ~StopCondition(Val(Val(records[key].choices)[1]))

\* C9: a Run that has ended with no turn meeting the stop condition and no
\* step exhausted has status max_turns_reached, MAX_AGENT_TURNS turns and
\* no result, and the agent state is not complete.
C9_MaxTurnsReached ==
    (Terminal /\ NoStopRecorded /\ instance.error # Some("StepExhausted")) =>
        /\ RunStatus = "max_turns_reached"
        /\ Val(instance.output).turns = MAX_AGENT_TURNS
        /\ "result" \notin DOMAIN Val(instance.output)
        /\ agent.status # "complete"

\* The messages turn t has pushed once n of its tool calls are handled.
TurnTranscript(t, n) ==
    IF ~IsRecorded(LlmKey(t)) THEN <<>>
    ELSE IF SkipsTurn(records[LlmKey(t)]) THEN <<>>
    ELSE LET c == Val(Val(records[LlmKey(t)].choices)[1])
             tcs == Val(Val(c.message).tool_calls)
         IN  <<[role |-> "assistant", content |-> Val(c.message).content,
                tool_calls |-> Val(c.message).tool_calls,
                tool_call_id |-> None]>>
             \o [j \in 1..n |->
                   [role |-> "tool",
                    content |-> Some(records[ToolKey(t, tcs[j])]),
                    tool_calls |-> None,
                    tool_call_id |-> Some(tcs[j].id)]]

\* The number of tool calls of the recorded response of turn t.
ToolCallCount(t) ==
    IF ~IsRecorded(LlmKey(t)) THEN 0
    ELSE IF SkipsTurn(records[LlmKey(t)]) THEN 0
    ELSE Len(Val(Val(Val(Val(records[LlmKey(t)].choices)[1]).message).tool_calls))

RECURSIVE TranscriptBefore(_)
TranscriptBefore(t) ==
    IF t = 0 THEN <<UserMessage>>
    ELSE TranscriptBefore(t - 1) \o TurnTranscript(t - 1, ToolCallCount(t - 1))

\* C10: while a turn is in its tool-call branch, messages is the transcript
\* of the earlier turns in turn order, then the assistant message of this
\* turn, then one tool message per tool call handled so far, in the order of
\* the tool calls, each with the id of its call and the string its step
\* returned.
C10_ToolMessagesInOrder ==
    /\ pc \in {"tool", "toolstep"} =>
          messages = TranscriptBefore(turn) \o TurnTranscript(turn, toolIdx - 1)
    /\ pc \in {"turn", "llm", "check"} => messages = TranscriptBefore(turn)

\* Both tool messages of a turn with two tool calls are in messages.
C10_Witness ==
    /\ pc = "turn"
    /\ turn = 1
    /\ Len(messages) = 4
    /\ messages[3].role = "tool"
    /\ messages[4].role = "tool"
    /\ messages[3].tool_call_id # messages[4].tool_call_id

----------------------------------------------------------------------------
(* Properties of the transcript, the tool errors and the retries.          *)

KnownTools == {"search_repos", "get_repo"}

\* C11: every tool message of messages carries the id of a tool call of an
\* assistant message at an earlier position.
C11_ToolCallIdsMatch ==
    \A i \in 1..Len(messages) :
        messages[i].role = "tool" =>
            \E j \in 1..(i - 1) :
                /\ messages[j].role = "assistant"
                /\ messages[j].tool_calls # None
                /\ \E k \in 1..Len(Val(messages[j].tool_calls)) :
                      Some(Val(messages[j].tool_calls)[k].id)
                          = messages[i].tool_call_id

\* messages ends with the tool message of an unknown tool.
C11_Witness ==
    /\ Len(messages) = 3
    /\ messages[3].role = "tool"
    /\ messages[3].tool_call_id = Some("c3")

\* C12: an attempt of a tool step for a call that names no known tool
\* succeeds with "Unknown tool: <name>", one for a known tool whose parsed
\* arguments fail the guard succeeds with "Invalid arguments for <name>";
\* it is the step's first attempt, the string is the content of the tool
\* message and the Run goes on.
C12_ErrorStrings ==
    [][ (pc = "toolstep" /\ invoked' # NoKey) =>
          LET tc == toolCalls[toolIdx]
              name == tc.function.name
              args == JsonParse(tc.function.arguments)
              last == messages'[Len(messages')]
          IN  /\ name \notin KnownTools =>
                    /\ attempt = 0 /\ attempt' = 0
                    /\ last.content = Some("Unknown tool: " \o name)
                    /\ instance'.status = "running"
              /\ (name \in KnownTools /\ args.ok /\ ~ReachesRun(tc)) =>
                    /\ attempt = 0 /\ attempt' = 0
                    /\ last.content = Some("Invalid arguments for " \o name)
                    /\ instance'.status = "running"
      ]_vars

\* C16: a progress update of a Run is applied at most once and never after
\* a later update of the same Run: once the first LLM step of the Run is
\* recorded, so that its initial update lies behind it, no step applies the
\* initial update again.
C16_UpdatesAtMostOnce ==
    [][ IsRecorded(LlmKey(0)) =>
          ~(pc = "init" /\ pc' = "turn"
               /\ agent' = updateProgress(agent, initialUpdate)) ]_vars

\* C19: a pending LLM step has failed fewer than LLM_RETRY_LIMIT times, and
\* the LLM step that exhausted its retries failed exactly LLM_RETRY_LIMIT
\* times and left the Run with status error.
C19_LlmStepExhausts ==
    /\ pc = "llm" => attempt < LLM_RETRY_LIMIT
    /\ (instance.error = Some("StepExhausted") /\ toolIdx = 0) =>
          /\ attempt = LLM_RETRY_LIMIT
          /\ RunStatus = "error"

\* The LLM step of the second turn has exhausted its retries.
C19_Witness ==
    /\ instance.error = Some("StepExhausted")
    /\ toolIdx = 0
    /\ turn = 1
    /\ attempt = LLM_RETRY_LIMIT

----------------------------------------------------------------------------
(* Properties of the control surface and of the AgentState.                *)

\* C13: a reset request never fails: whatever instanceId it carries and
\* whatever get() and terminate() do, it ends with the AgentState idle, the
\* message empty, no result, and the response "OK"; a request without an
\* instanceId calls terminate() on nothing.
C13_ResetLeavesIdle ==
    [][ /\ reset'.pc # "failed"
        /\ (reset.pc # "done" /\ reset'.pc = "done") =>
              /\ agent' = [status |-> "idle", message |-> "", result |-> None]
              /\ reset'.response = Some("OK")
        /\ reset.instanceId = None =>
              /\ reset'.pc # "terminate" \/ reset'.instanceId # None
              /\ reset' = reset \/ reset.pc # "terminate"
              /\ terminateRequested' = terminateRequested
      ]_vars

\* A reset that named the Run has answered although terminate() threw: the
\* Run is still in flight, with steps recorded, and the AgentState is idle.
C13_Witness ==
    /\ reset.pc = "done"
    /\ reset.instanceId = Some(RunId)
    /\ terminateRequested = Some("running")
    /\ instance.status = "running"
    /\ records # <<>>
    /\ agent.status = "idle"

\* C14: once a reset has called terminate() on the Run, the Run invokes the
\* callback of no further step.
C14_NoStepAfterTerminate ==
    [][ terminateRequested # None => invoked' = NoKey ]_vars

\* C15: a publish overwrites the fields of the update and keeps the others:
\* the first update of a Run sets status, message and an empty result, the
\* turn and tool updates set status and message and keep the result.
C15_PublishMerges ==
    [][ /\ ((pc = "init" /\ pc' = "turn") \/ (other = "init" /\ other' = "turn"))
              => agent' = [status |-> "searching",
                           message |-> "Starting analysis...",
                           result |-> Some("")]
        /\ ((pc = "turn" /\ pc' = "llm") \/ (other = "turn" /\ other' = "llm"))
              => /\ agent'.status = "analyzing"
                 /\ agent'.result = agent.result
        /\ (pc = "tool" /\ pc' = "toolstep")
              => /\ agent'.status = "fetching"
                 /\ agent'.result = agent.result
      ]_vars

\* The first Run completed with a result, and the first update of the Run
\* started after it has cleared that result.
C15_Witness ==
    /\ RunStatus = "complete"
    /\ Val(instance.output).result = Some("pong")
    /\ other = "turn"
    /\ agent = [status |-> "searching", message |-> "Starting analysis...",
                result |-> Some("")]

\* C17: no two Runs have a publish to the AgentState ahead of them at the
\* same time.
C17_SingleWriter ==
    ~ /\ instance.status = "running"
      /\ pc \in {"init", "turn", "tool", "complete"}
      /\ other \in {"init", "turn"}

\* C18: the AgentState holds a non-empty result only with status complete.
C18_ResultOnlyWhenComplete ==
    agent.result \notin {None, Some("")} => agent.status = "complete"

\* C20: once the Run has ended, its instance and its messages never change,
\* and a status inspection answers what the inspection before it answered.
C20_TerminalImmutable ==
    [][ instance.status # "running" =>
          /\ instance' = instance
          /\ messages' = messages
          /\ inspected' # inspected =>
                /\ inspected' = Some([status |-> instance.status,
                                      output |-> instance.output])
                /\ inspected = None \/ Val(inspected).status = "running"
      ]_vars

\* The Run completed, a reset then called terminate() on it and answered,
\* and the status inspected is still that of the completed Run.
C20_Witness ==
    /\ RunStatus = "complete"
    /\ terminateRequested = Some("complete")
    /\ reset.pc = "done"
    /\ inspected = Some([status |-> "complete", output |-> instance.output])

----------------------------------------------------------------------------
(* Properties of the tools, the step keys and the order of the steps.      *)

\* C21: an attempt of a tool step that reaches a tool's run succeeds: it
\* is the first attempt, no retry follows, the string run returned is
\* recorded and is the content of the tool message appended.
C21_RunNeverThrows ==
    [][ (pc = "toolstep" /\ invoked' # NoKey /\ ReachesRun(toolCalls[toolIdx]))
          => /\ attempt = 0 /\ attempt' = 0
             /\ invoked' \in DOMAIN records'
             /\ messages' # messages
             /\ messages'[Len(messages')].content = Some(records'[invoked'])
      ]_vars

\* The assistant message a tool message at position i answers.
LastAssistantBefore(i) ==
    CHOOSE j \in 1..(i - 1) :
        /\ messages[j].role = "assistant"
        /\ \A k \in (j + 1)..(i - 1) : messages[k].role # "assistant"

\* The strings the callback of a tool step can return for a tool call.
ResultsOf(toolCall) ==
    {DispatchTool(toolCall, http).value : http \in
        {h \in HttpOutcomes : ~DispatchTool(toolCall, h).threw}}

\* C22: no tool call gets the recorded result of another one: the content
\* of every tool message is a string the callback returns for the tool call
\* the message answers, also when two tool calls of one assistant message
\* have the same id.
C22_NoForeignResult ==
    \A i \in 1..Len(messages) :
        messages[i].role = "tool" =>
            LET j == LastAssistantBefore(i)
                toolCall == Val(messages[j].tool_calls)[i - j]
            IN  \E r \in ResultsOf(toolCall) : messages[i].content = Some(r)

\* The tool calls of the recorded response of turn t.
ToolCallsOf(t) ==
    Val(Val(Val(Val(records[LlmKey(t)].choices)[1]).message).tool_calls)

\* C23: a Run is one sequential process. The callback invoked is that of
\* the one step run() is suspended in; the LLM step of a turn is invoked
\* only when every tool step of the turn before is recorded and its tool
\* message is in messages; a tool step is invoked only when the tool steps
\* of the earlier tool calls of its turn are recorded and answered.
C23_Sequential ==
    [][ invoked' # NoKey =>
          /\ invoked' = PendingKey
          /\ (pc = "llm" /\ turn > 0) =>
                LET n == ToolCallCount(turn - 1)
                IN  \A k \in 1..n :
                       /\ IsRecorded(ToolKey(turn - 1, ToolCallsOf(turn - 1)[k]))
                       /\ messages[Len(messages) - n + k].role = "tool"
                       /\ messages[Len(messages) - n + k].tool_call_id
                             = Some(ToolCallsOf(turn - 1)[k].id)
          /\ pc = "toolstep" =>
                \A k \in 1..(toolIdx - 1) :
                   /\ IsRecorded(ToolKey(turn, toolCalls[k]))
                   /\ messages[Len(messages) - toolIdx + 1 + k].role = "tool"
                   /\ messages[Len(messages) - toolIdx + 1 + k].tool_call_id
                         = Some(toolCalls[k].id)
      ]_vars

\* The LLM step of the second turn is invoked after both tool steps of the
\* first turn were recorded.
C23_Witness ==
    /\ invoked = LlmKey(1)
    /\ IsRecorded(ToolKey(0, SearchCall))
    /\ IsRecorded(ToolKey(0, RepoCall))
    /\ Len(messages) = 4

\* C28: a Run with status complete finds the AgentState complete with the
\* result of the Run (both absent when the assistant content is null), no
\* reset and no other Run writing; a Run that ended error or
\* max_turns_reached has not left the AgentState complete.
C28_CompleteBeforeTerminal ==
    /\ RunStatus = "complete" =>
          /\ agent.status = "complete"
          /\ agent.result = Val(instance.output).result
    /\ RunStatus \in {"error", "max_turns_reached"} =>
          agent.status # "complete"

----------------------------------------------------------------------------
(* Properties of a resumed Run, of the history and of a reset AgentState.  *)

\* How many of the tool calls tcs of turn t, from the first on, are recorded.
LeadingRecorded(t, tcs) ==
    Cardinality({k \in 1..Len(tcs) :
                    \A j \in 1..k : IsRecorded(ToolKey(t, tcs[j]))})

\* run() on the records alone: the messages and the output an execution
\* that is never interrupted has once it went through the recorded steps,
\* from turn t on with the messages msgs; no output when it needs a step
\* that is not recorded or throws.
RECURSIVE Replay(_, _)
Replay(t, msgs) ==
    IF ~LoopCond(t)
    THEN [messages |-> msgs,
          output |-> Some([status |-> "max_turns_reached",
                           turns |-> MAX_AGENT_TURNS])]
    ELSE IF ~IsRecorded(LlmKey(t)) THEN [messages |-> msgs, output |-> None]
    ELSE IF SkipsTurn(records[LlmKey(t)]) THEN Replay(t + 1, msgs)
    ELSE LET c == Val(Val(records[LlmKey(t)].choices)[1])
         IN  IF c.message = None THEN [messages |-> msgs, output |-> None]
             ELSE IF StopCondition(c)
             THEN [messages |-> Append(msgs, AssistantMessage(c)),
                   output |-> Some([status |-> "complete", turns |-> t + 1,
                                    result |-> Val(c.message).content])]
             ELSE LET tcs == Val(Val(c.message).tool_calls)
                      n == LeadingRecorded(t, tcs)
                      answered ==
                          Append(msgs, AssistantMessage(c))
                          \o [k \in 1..n |->
                                ToolMessage(records[ToolKey(t, tcs[k])], tcs[k])]
                  IN  IF n < Len(tcs)
                      THEN [messages |-> answered, output |-> None]
                      ELSE Replay(t + 1, answered)

\* C25: a Run that crashed and was resumed is an uninterrupted Run on the
\* same step results. Its messages are always a prefix of what the records
\* give; when it is suspended in a step that is not recorded, so also when a
\* resume has caught up with the crash, its messages are all that the
\* records give, the transcript from before the crash included; and a Run
\* that ended complete or max_turns_reached has the status, turns, result
\* and messages the records give.
C25_CrashResumeEquivalence ==
    LET r == Replay(0, <<UserMessage>>)
    IN  /\ IsPrefix(messages, r.messages)
        /\ (PendingKey # NoKey /\ ~IsRecorded(PendingKey)) =>
              messages = r.messages
        /\ RunStatus \in {"complete", "max_turns_reached"} =>
              /\ instance.output = r.output
              /\ messages = r.messages

\* A Run that used a tool, crashed and was resumed has ended complete.
C25_Witness ==
    /\ crashes = 1
    /\ RunStatus = "complete"
    /\ Val(instance.output).turns = 2
    /\ Len(messages) = 4

\* The tool calls of an assistant message, none when it lists none.
CallsOf(m) == IF m.tool_calls = None THEN <<>> ELSE Val(m.tool_calls)

\* C26: when the callback of an LLM step is invoked, every assistant
\* message of messages is followed by one tool message per tool call it
\* lists, in their order and with their ids, and by no further tool message.
C26_WellFormedHistory ==
    [][ (pc = "llm" /\ invoked' # NoKey) =>
          \A j \in 1..Len(messages) :
              messages[j].role = "assistant" =>
                  LET tcs == CallsOf(messages[j])
                  IN  /\ j + Len(tcs) <= Len(messages)
                      /\ \A k \in 1..Len(tcs) :
                            /\ messages[j + k].role = "tool"
                            /\ messages[j + k].tool_call_id = Some(tcs[k].id)
                      /\ j + Len(tcs) < Len(messages) =>
                            messages[j + Len(tcs) + 1].role # "tool"
      ]_vars

\* The LLM step of the second turn is invoked with the answer to an unknown
\* tool in the history.
C26_Witness ==
    /\ invoked = LlmKey(1)
    /\ Len(messages) = 3
    /\ messages[3].content = Some("Unknown tool: frobnicate")

\* C27: once a reset has answered, the AgentState it set stays as it is
\* while no new Run is started.
C27_StaysIdleAfterReset ==
    [][ (reset.pc = "done" /\ other = "none") => agent' = agent ]_vars

----------------------------------------------------------------------------
(* Properties of the App.                                                  *)

\* C24: a broadcast delivered while a submission is under way leaves the
\* status, the step log and the result of the App as they are, and an App
\* that has submitted again never displays a state the Run before wrote,
\* here for a Run before that has ended or was terminated.
C24_IgnoresWhileSubmitting ==
    [][ /\ (client.submitting /\ Len(channel') < Len(channel)) =>
              /\ client'.status = client.status
              /\ client'.steps = client.steps
              /\ client'.result = client.result
        /\ (client'.resubmitted /\ instance'.status # "running") =>
              client'.shows # "run"
      ]_vars

====
